---- MODULE Spec2Model ----
(***************************************************************************)
(* Model of julia/pseudo_python_cli.py: the argument splitter split_args,  *)
(* the argparse front end built by make_parser, the dispatcher python()    *)
(* and the entry point main().                                             *)
(*                                                                         *)
(* A token (one command line argument, a Python str) is a sequence of      *)
(* one-character strings, so that a[1], a.startswith("-") and the bundled  *)
(* short options of argparse are computed character by character.          *)
(* An optional value (None or a str) is a sequence of at most one token:   *)
(* <<>> is None and <<t>> is the string t.                                 *)
(***************************************************************************)
EXTENDS Integers, Sequences, FiniteSets, TLC

\* ------------------------------------------------------------------ bounds
\* Longest argument vector handed to split_args on its own.
MaxLen == 3
\* Longest argument vector handed to main().
MaxArgs == 3
\* Longest script_args handed to python() when it is called directly.
MaxFwd == 2

\* ------------------------------------------------------------------ tokens
Empty == <<>>
Dash == <<"-">>
DashC == <<"-", "c">>
DashM == <<"-", "m">>
DashI == <<"-", "i">>
DashV == <<"-", "V">>
DashX == <<"-", "x">>
X == <<"x">>

\* The tokens argument vectors are drawn from: every class split_args and the
\* parser tell apart (empty, lone dash, exact -c/-m, plain flags, unknown
\* flags, bundles with and without an attached operand, positionals).
Tokens ==
    { Empty, Dash, DashC, DashM, DashI, DashV, DashX, X,
      <<"-", "i", "c">>, <<"-", "c", "x">>, <<"-", "m", "x">>,
      <<"-", "i", "c", "x">>, <<"-", "i", "m", "x">> }

RECURSIVE SeqsUpTo(_, _)
SeqsUpTo(S, n) ==
    IF n = 0 THEN { <<>> }
    ELSE LET shorter == SeqsUpTo(S, n - 1)
         IN  shorter \cup { Append(s, t) : s \in shorter, t \in S }

\* Python None and str as optional values.
None == <<>>
Some(t) == <<t>>
\* Python truthiness of an Optional[str]: None and "" are false.
Truthy(o) == o # None /\ o[1] # Empty

\* ------------------------------------------------------------ split_args
\* a.startswith("-")
startswith_dash(a) == Len(a) >= 1 /\ a[1] = "-"

\* line 111: a in ("-c", "-m")
takes_operand(a) == a \in { DashC, DashM }

\* Mutant of line 124: only "c" is looked for.
bundles_mode_c_only(a) == a[2] = "c"

\* line 124: a[1] in ("c", "m"); Python's a[1] is the second character.
bundles_mode(a) == a[2] \in { "c", "m" }

\* Mutant of line 129: list(args) in place of list(it).
list_it_all(args, i) == args

\* line 129: list(it), the tokens the iterator has not yielded; i is the
\* index of the next token the iterator would yield.
list_it(args, i) == SubSeq(args, i, Len(args))

\* Python's a[1]: it exists when the token has two characters, and raises
\* IndexError otherwise.
has_index1(a) == Len(a) >= 2

\* Mutant of lines 110-128: line 117 is missing, the operand of -c/-m is
\* taken from the iterator and not appended.
RECURSIVE scan_drops_operand(_, _, _)
scan_drops_operand(args, i, py_args) ==
    IF i > Len(args) THEN <<py_args, i, "none">>
    ELSE LET a == args[i] IN
         IF takes_operand(a)
         THEN IF i + 1 > Len(args)
              THEN <<Append(py_args, a), i + 1, "none">>
              ELSE <<Append(py_args, a), i + 2, "none">>
         ELSE IF a = Dash
         THEN <<Append(py_args, a), i + 1, "none">>
         ELSE IF startswith_dash(a)
         THEN IF ~has_index1(a)
              THEN <<Append(py_args, a), i + 1, "IndexError">>
              ELSE IF bundles_mode(a)
              THEN <<Append(py_args, a), i + 1, "none">>
              ELSE scan_drops_operand(args, i + 1, Append(py_args, a))
         ELSE <<Append(py_args, a), i + 1, "none">>

\* Mutant of lines 110-128: the try/except of lines 113-116 is missing, the
\* StopIteration of next(it) leaves the function.
RECURSIVE scan_no_except(_, _, _)
scan_no_except(args, i, py_args) ==
    IF i > Len(args) THEN <<py_args, i, "none">>
    ELSE LET a == args[i] IN
         IF takes_operand(a)
         THEN IF i + 1 > Len(args)
              THEN <<Append(py_args, a), i + 1, "StopIteration">>
              ELSE <<Append(Append(py_args, a), args[i + 1]), i + 2, "none">>
         ELSE IF a = Dash
         THEN <<Append(py_args, a), i + 1, "none">>
         ELSE IF startswith_dash(a)
         THEN IF ~has_index1(a)
              THEN <<Append(py_args, a), i + 1, "IndexError">>
              ELSE IF bundles_mode(a)
              THEN <<Append(py_args, a), i + 1, "none">>
              ELSE scan_no_except(args, i + 1, Append(py_args, a))
         ELSE <<Append(py_args, a), i + 1, "none">>

\* Mutant of lines 110-128: the case of lines 119-121 is missing, so that a
\* lone "-" reaches a[1].
RECURSIVE scan_no_stdin_case(_, _, _)
scan_no_stdin_case(args, i, py_args) ==
    IF i > Len(args) THEN <<py_args, i, "none">>
    ELSE LET a == args[i] IN
         IF takes_operand(a)
         THEN IF i + 1 > Len(args)
              THEN <<Append(py_args, a), i + 1, "none">>
              ELSE <<Append(Append(py_args, a), args[i + 1]), i + 2, "none">>
         ELSE IF startswith_dash(a)
         THEN IF ~has_index1(a)
              THEN <<Append(py_args, a), i + 1, "IndexError">>
              ELSE IF bundles_mode(a)
              THEN <<Append(py_args, a), i + 1, "none">>
              ELSE scan_no_stdin_case(args, i + 1, Append(py_args, a))
         ELSE <<Append(py_args, a), i + 1, "none">>

\* The for loop of lines 110-128.  Returns <<py_args, i, exc>> with i the
\* iterator's position when the loop is left and exc the exception that
\* left it, "none" if the loop ended.
RECURSIVE scan(_, _, _)
scan(args, i, py_args) ==
    IF i > Len(args) THEN <<py_args, i, "none">>
    ELSE LET a == args[i] IN
         IF takes_operand(a)
         THEN IF i + 1 > Len(args)
              THEN <<Append(py_args, a), i + 1, "none">>
              ELSE <<Append(Append(py_args, a), args[i + 1]), i + 2, "none">>
         ELSE IF a = Dash
         THEN <<Append(py_args, a), i + 1, "none">>
         ELSE IF startswith_dash(a)
         THEN IF ~has_index1(a)
              THEN <<Append(py_args, a), i + 1, "IndexError">>
              ELSE IF bundles_mode(a)
              THEN <<Append(py_args, a), i + 1, "none">>
              ELSE scan(args, i + 1, Append(py_args, a))
         ELSE <<Append(py_args, a), i + 1, "none">>

\* The pair split_args returns (line 129).
split_args(args) ==
    LET r == scan(args, 1, <<>>)
    IN  <<r[1], list_it(args, r[2])>>

\* The exception that leaves split_args, "none" if it returns.
split_raises(args) == scan(args, 1, <<>>)[3]

\* ------------------------------------------------- make_parser / argparse
\* The option letters make_parser registers (lines 64-88), and -h, which
\* ArgumentParser adds by default (line 58).
FlagLetters == { "i", "V", "h" }
ArgLetters == { "c", "m" }
KnownLetters == FlagLetters \cup ArgLetters

\* argparse classifies an argument string as an option string ('O') when it
\* starts with the prefix character and is longer than one character;
\* "" and "-" are positional ('A').
is_option_string(a) == Len(a) >= 2 /\ a[1] = "-"

\* The namespace under construction, with the parser's bookkeeping:
\* seen_c/seen_m are the members of the mutually exclusive group (line 77)
\* seen so far, script_done says the positional of line 90 is consumed,
\* extras says an unrecognized argument was met, exit is "" while parsing
\* goes on and the SystemExit code once the parser has exited.
ParserStart ==
    [ interactive |-> FALSE, command |-> None, module |-> None,
      script |-> None, seen_c |-> FALSE, seen_m |-> FALSE,
      script_done |-> FALSE, extras |-> FALSE, exit |-> "" ]

\* One option string "-l1l2...": the single-dash bundle is walked letter by
\* letter from position j.  A flag letter (nargs=0) must be followed by
\* another known letter or nothing; -c/-m take the rest of the token as
\* their operand, or ask for the next argument string (next = TRUE).
RECURSIVE bundle(_, _, _)
bundle(t, j, acts) ==
    LET l == t[j]
        rest == SubSeq(t, j + 1, Len(t))
    IN  IF l \in ArgLetters
        THEN IF rest # <<>>
             THEN [ err |-> FALSE, next |-> FALSE,
                    acts |-> Append(acts, <<l, Some(rest)>>) ]
             ELSE [ err |-> FALSE, next |-> TRUE,
                    acts |-> Append(acts, <<l, None>>) ]
        ELSE IF rest = <<>>
             THEN [ err |-> FALSE, next |-> FALSE,
                    acts |-> Append(acts, <<l, None>>) ]
             ELSE IF rest[1] \in KnownLetters
                  THEN bundle(t, j + 1, Append(acts, <<l, None>>))
                  ELSE [ err |-> TRUE, next |-> FALSE, acts |-> acts ]

\* The mutually exclusive group of line 77: -c conflicts with a -m seen
\* before it, and -m with a -c.
group_conflict(st, l) ==
    \/ l = "c" /\ st.seen_m
    \/ l = "m" /\ st.seen_c

\* The actions of one option string, taken in order: -i stores True
\* (line 65), -V and -h print and exit 0 (line 70), -c and -m store their
\* operand (lines 79, 84) unless the group forbids it (exit 2).
RECURSIVE take_actions(_, _, _)
take_actions(st, acts, k) ==
    IF k > Len(acts) \/ st.exit # "" THEN st
    ELSE LET l == acts[k][1]
             v == acts[k][2]
             st1 == IF l = "i" THEN [st EXCEPT !.interactive = TRUE]
                    ELSE IF l \in { "V", "h" } THEN [st EXCEPT !.exit = "0"]
                    ELSE IF group_conflict(st, l) THEN [st EXCEPT !.exit = "2"]
                    ELSE IF l = "c"
                         THEN [st EXCEPT !.command = v, !.seen_c = TRUE]
                         ELSE [st EXCEPT !.module = v, !.seen_m = TRUE]
         IN  take_actions(st1, acts, k + 1)

\* The operand of the last action of a bundle, taken from the next
\* argument string.
with_operand(acts, v) ==
    [acts EXCEPT ![Len(acts)] = <<acts[Len(acts)][1], Some(v)>>]

\* parser.parse_args(py_args) of line 135, left to right from index i.
RECURSIVE parser_walk(_, _, _)
parser_walk(py_args, i, st) ==
    IF st.exit # "" THEN st
    ELSE IF i > Len(py_args)
    THEN IF st.extras THEN [st EXCEPT !.exit = "2"] ELSE st
    ELSE LET t == py_args[i] IN
         IF is_option_string(t)
         THEN IF t[2] \notin KnownLetters
              THEN parser_walk(py_args, i + 1, [st EXCEPT !.extras = TRUE])
              ELSE LET b == bundle(t, 2, <<>>) IN
                   IF b.err THEN [st EXCEPT !.exit = "2"]
                   ELSE IF b.next
                   THEN IF i + 1 <= Len(py_args)
                           /\ ~is_option_string(py_args[i + 1])
                        THEN parser_walk(py_args, i + 2,
                                 take_actions(st,
                                     with_operand(b.acts, py_args[i + 1]), 1))
                        ELSE [st EXCEPT !.exit = "2"]
                   ELSE parser_walk(py_args, i + 1,
                                    take_actions(st, b.acts, 1))
         ELSE IF st.script_done
              THEN parser_walk(py_args, i + 1, [st EXCEPT !.extras = TRUE])
              ELSE parser_walk(py_args, i + 1,
                       [st EXCEPT !.script = Some(t), !.script_done = TRUE])

\* Mutant of line 135: the parser is given the whole vector, not py_args.
parse_args_whole(args) ==
    LET sp == split_args(args)
        st == parser_walk(args, 1, ParserStart)
    IN  [ exit |-> st.exit, interactive |-> st.interactive,
          command |-> st.command, module |-> st.module,
          script |-> st.script, script_args |-> sp[2] ]

\* parse_args (lines 132-137): split, parse the front-end slice, attach the
\* forwarded slice.  exit # "" means parser.parse_args raised SystemExit.
parse_args(args) ==
    LET sp == split_args(args)
        st == parser_walk(sp[1], 1, ParserStart)
    IN  [ exit |-> st.exit, interactive |-> st.interactive,
          command |-> st.command, module |-> st.module,
          script |-> st.script, script_args |-> sp[2] ]

\* ------------------------------------------------------------ environment
\* sys.argv[0] before main() or python() runs.
Prog == <<"p", "y">>

\* Names the executed program may bind in its scope.
Names == { "a" }

\* What the executed program does when the backend runs it: "ok" returns,
\* "raise" raises an Exception, "exit" raises SystemExit, "syntax" does not
\* compile (SyntaxError, an Exception); binds are the names it has bound by
\* then.
Programs ==
    { [ result |-> r, binds |-> b ] :
        r \in { "ok", "raise", "exit" }, b \in SUBSET Names }
    \cup { [ result |-> "syntax", binds |-> {} ] }

\* The code of a SystemExit raised by the executed program (sys.exit(3)).
ProgExit == "3"

\* The exception the backend raises for a program, "none" if it returns.
backend_raises(prog) ==
    CASE prog.result = "ok" -> "none"
      [] prog.result = "raise" -> "BackendError"
      [] prog.result = "syntax" -> "SyntaxError"
      [] prog.result = "exit" -> "SystemExit"

\* ------------------------------------------------------------------ state
VARIABLES
    pc,           \* where control is
    caller,       \* "main": python() was called by main(); "direct": by a caller
    args,         \* main's argument vector
    py_args,      \* split_args' first result
    re_split,     \* split_args applied to py_args
    program,      \* the executed program's behaviour
    argv,         \* sys.argv; argv[1] is Python's sys.argv[0]
    module, command, script, script_args,   \* the namespace ns python() is called with
    ns_interactive,                         \* ns.interactive
    interactive,  \* python()'s parameter and local interactive
    scope,        \* python()'s local: "unbound", "None" or "dict"
    scope_names,  \* the names bound in the dict scope refers to
    banner,       \* python()'s local: "unset", or an optional str
    backend_exc,  \* what the last backend call raised, "none" if it returned
    raised,       \* the exception in flight, "none" if there is none
    code,         \* the code of the SystemExit in flight
    calls,        \* the backend calls made so far, in order
    session,      \* the arguments code.interact was called with
    ret,          \* what main() returned: "unset" until then
    status        \* the process exit status: "unset" until sys.exit

vars ==
    << pc, caller, args, py_args, re_split, program, argv, module, command,
       script, script_args, ns_interactive, interactive, scope, scope_names,
       banner, backend_exc, raised, code, calls, session, ret, status >>

NoSession == [ started |-> FALSE, banner |-> None, local |-> "None", names |-> {} ]

\* The locals of python() before it is entered.
Blank ==
    /\ py_args = <<>>
    /\ re_split = << <<>>, <<>> >>
    /\ scope = "unbound"
    /\ scope_names = {}
    /\ banner = "unset"
    /\ backend_exc = "none"
    /\ raised = "none"
    /\ code = ""
    /\ calls = <<>>
    /\ session = NoSession
    /\ ret = "unset"
    /\ status = "unset"

NoRecord ==
    /\ module = None
    /\ command = None
    /\ script = None
    /\ script_args = <<>>
    /\ ns_interactive = FALSE
    /\ interactive = FALSE

\* main(args) with args = sys.argv[1:] (lines 140-142).
Init ==
    /\ pc = "main"
    /\ caller = "main"
    /\ args \in SeqsUpTo(Tokens, MaxArgs)
    /\ program \in Programs
    /\ argv = <<Prog>> \o args
    /\ NoRecord
    /\ Blank

\* split_args(args) on its own.
InitSplit ==
    /\ pc = "split"
    /\ caller = "split"
    /\ args \in SeqsUpTo(Tokens, MaxLen)
    /\ program = [ result |-> "ok", binds |-> {} ]
    /\ argv = <<Prog>>
    /\ NoRecord
    /\ Blank

\* The values a field of the invocation record may have when python() is
\* called directly: None, "", "-" and a name.
Fields == { None, Some(Empty), Some(Dash), Some(X) }

\* python(module, command, script, script_args, interactive) called directly.
InitPython ==
    /\ pc = "python"
    /\ caller = "direct"
    /\ args = <<>>
    /\ program \in Programs
    /\ argv = <<Prog, DashI>>
    /\ module \in Fields
    /\ command \in Fields
    /\ script \in Fields
    /\ script_args \in SeqsUpTo({ X, DashI }, MaxFwd)
    /\ ns_interactive \in BOOLEAN
    /\ interactive = ns_interactive
    /\ Blank

\* ---------------------------------------------------------------- actions
\* split_args(args), called on its own (lines 97-129).
SplitArgs ==
    /\ pc = "split"
    /\ IF split_raises(args) # "none"
       THEN /\ raised' = split_raises(args)
            /\ pc' = "split_raised"
            /\ UNCHANGED << py_args, script_args >>
       ELSE /\ py_args' = split_args(args)[1]
            /\ script_args' = split_args(args)[2]
            /\ pc' = "resplit"
            /\ UNCHANGED raised
    /\ UNCHANGED << caller, args, re_split, program, argv, module, command,
                    script, interactive, scope, scope_names, banner, code,
                    calls, session, ret, ns_interactive, backend_exc,
                    status >>

\* split_args applied to the front-end slice it returned.
Resplit ==
    /\ pc = "resplit"
    /\ IF split_raises(py_args) # "none"
       THEN /\ raised' = split_raises(py_args)
            /\ pc' = "split_raised"
            /\ UNCHANGED re_split
       ELSE /\ re_split' = split_args(py_args)
            /\ pc' = "split_done"
            /\ UNCHANGED raised
    /\ UNCHANGED << caller, args, py_args, program, argv, module, command,
                    script, script_args, interactive, scope, scope_names,
                    banner, code, calls, session, ret, ns_interactive,
                    backend_exc, status >>

\* main, line 144: ns = parse_args(args).  The parser either exits
\* (SystemExit with its code) or yields the namespace python() is called with.
ParseArgs ==
    /\ pc = "main"
    /\ LET p == parse_args(args) IN
        /\ py_args' = split_args(args)[1]
        /\ IF split_raises(args) # "none"
           THEN /\ raised' = split_raises(args)
                /\ pc' = "parse_exit"
                /\ UNCHANGED << module, command, script, script_args,
                                ns_interactive, interactive, code >>
           ELSE IF p.exit # ""
           THEN /\ raised' = "SystemExit"
                /\ code' = p.exit
                /\ pc' = "parse_exit"
                /\ UNCHANGED << module, command, script, script_args,
                                ns_interactive, interactive >>
           ELSE /\ module' = p.module
                /\ command' = p.command
                /\ script' = p.script
                /\ script_args' = p.script_args
                /\ ns_interactive' = p.interactive
                /\ interactive' = p.interactive
                /\ pc' = "python"
                /\ UNCHANGED << raised, code >>
    /\ UNCHANGED << caller, args, re_split, program, argv, scope,
                    scope_names, banner, calls, session, ret, backend_exc,
                    status >>

\* Mutant of lines 16-19: the stdin marker "-" is not written to sys.argv[0].
argv0_skips_stdin(cmd, scr, old) ==
    IF Truthy(cmd) THEN DashC
    ELSE IF Truthy(scr) /\ scr # Some(Dash) THEN scr[1]
    ELSE old

\* python, lines 16-19: what sys.argv[0] becomes.
argv0(cmd, scr, old) ==
    IF Truthy(cmd) THEN DashC
    ELSE IF Truthy(scr) THEN scr[1]
    ELSE old

\* python, line 22: banner = "".
banner_default == Some(Empty)

\* Mutant of line 42: the banner is left as line 22 set it.
banner_fresh_blank == Some(Empty)

\* python, line 42: banner = None.
banner_fresh == None

\* Mutant of line 20: sys.argv[1:1] = script_args, the arguments are put in
\* front of the ones already there.
set_tail_inserts(av, a0, fwd) == <<a0>> \o fwd \o Tail(av)

\* python, line 20: sys.argv[1:] = script_args, after position 0 was set.
set_tail(av, a0, fwd) == <<a0>> \o fwd

\* python, lines 16-22.
SetArgv ==
    /\ pc = "python"
    /\ argv' = set_tail(argv, argv0(command, script, argv[1]), script_args)
    /\ banner' = banner_default
    /\ pc' = "try"
    /\ UNCHANGED << caller, args, py_args, re_split, program, module,
                    command, script, script_args, interactive, scope,
                    scope_names, raised, code, calls, session, ret,
                    ns_interactive, backend_exc, status >>

\* Mutant of lines 24-39: "elif script:" of line 35 is an "else:", so that
\* the last branch is never taken.
branch_no_else(cmd, mod, scr) ==
    IF Truthy(cmd) THEN "command"
    ELSE IF Truthy(mod) THEN "module"
    ELSE IF scr = Some(Dash) THEN "stdin"
    ELSE "file"

\* Mutant of lines 24-39: the module test comes before the command test.
branch_module_first(cmd, mod, scr) ==
    IF Truthy(mod) THEN "module"
    ELSE IF Truthy(cmd) THEN "command"
    ELSE IF scr = Some(Dash) THEN "stdin"
    ELSE IF Truthy(scr) THEN "file"
    ELSE "none"

\* python, lines 24-39: the if/elif chain.
branch(cmd, mod, scr) ==
    IF Truthy(cmd) THEN "command"
    ELSE IF Truthy(mod) THEN "module"
    ELSE IF scr = Some(Dash) THEN "stdin"
    ELSE IF Truthy(scr) THEN "file"
    ELSE "none"

\* Mutant of line 43: the clause catches BaseException, SystemExit included.
caught_all(exc) == exc # "none"

\* python, line 43, and main, line 148: except Exception catches every
\* exception of the model but SystemExit.
caught(exc) ==
    exc \in { "BackendError", "SyntaxError", "UnboundLocalError",
              "IndexError", "StopIteration" }

\* Where control goes when the try body ends with exc in flight.
try_exit(exc) ==
    IF exc = "none" THEN "after_try"
    ELSE IF caught(exc) THEN "except"
    ELSE "py_raised"

exit_code(exc) == IF exc = "SystemExit" THEN ProgExit ELSE ""

\* python, lines 25-26: scope = {}; exec(command, scope).
ExecCommand ==
    /\ pc = "try"
    /\ branch(command, module, script) = "command"
    /\ scope' = "dict"
    /\ scope_names' = program.binds
    /\ calls' = Append(calls, "exec")
    /\ backend_exc' = backend_raises(program)
    /\ raised' = backend_exc'
    /\ code' = exit_code(raised')
    /\ pc' = try_exit(raised')
    /\ UNCHANGED << caller, args, py_args, re_split, program, argv, module,
                    command, script, script_args, interactive, banner,
                    session, ret, ns_interactive, status >>

\* A backend call whose result is assigned to scope: the assignment happens
\* only if the call returns.
RunAndBind(fn) ==
    /\ calls' = Append(calls, fn)
    /\ backend_exc' = backend_raises(program)
    /\ raised' = backend_exc'
    /\ code' = exit_code(raised')
    /\ pc' = try_exit(raised')
    /\ IF raised' = "none"
       THEN scope' = "dict" /\ scope_names' = program.binds
       ELSE UNCHANGED << scope, scope_names >>
    /\ UNCHANGED << caller, args, py_args, re_split, program, argv, module,
                    command, script, script_args, interactive, banner,
                    session, ret, ns_interactive, status >>

\* python, lines 28-31: scope = runpy.run_module(module, ...).
RunModule ==
    /\ pc = "try"
    /\ branch(command, module, script) = "module"
    /\ RunAndBind("run_module")

\* python, lines 33-34: source = sys.stdin.read();
\* exec(compile(source, "<stdin>", "exec"), scope).  The arguments of exec
\* are evaluated left to right: compile first, then the local scope, which
\* raises UnboundLocalError when no assignment to it has run.
ExecStdin ==
    /\ pc = "try"
    /\ branch(command, module, script) = "stdin"
    /\ IF program.result = "syntax"
       THEN /\ calls' = calls \o << "stdin.read", "compile" >>
            /\ backend_exc' = "SyntaxError"
            /\ raised' = "SyntaxError"
            /\ UNCHANGED scope_names
       ELSE IF scope = "unbound"
       THEN /\ calls' = calls \o << "stdin.read", "compile" >>
            /\ backend_exc' = "none"
            /\ raised' = "UnboundLocalError"
            /\ UNCHANGED scope_names
       ELSE /\ calls' = calls \o << "stdin.read", "compile", "exec" >>
            /\ backend_exc' = backend_raises(program)
            /\ raised' = backend_exc'
            /\ scope_names' = scope_names \cup program.binds
    /\ code' = exit_code(raised')
    /\ pc' = try_exit(raised')
    /\ UNCHANGED << caller, args, py_args, re_split, program, argv, module,
                    command, script, script_args, interactive, scope, banner,
                    session, ret, ns_interactive, status >>

\* python, lines 36-38: scope = runpy.run_path(script, ...).
RunPath ==
    /\ pc = "try"
    /\ branch(command, module, script) = "file"
    /\ RunAndBind("run_path")

\* python, lines 40-42: interactive = True; scope = None; banner = None.
NoProgram ==
    /\ pc = "try"
    /\ branch(command, module, script) = "none"
    /\ interactive' = TRUE
    /\ scope' = "None"
    /\ banner' = banner_fresh
    /\ pc' = "after_try"
    /\ UNCHANGED << caller, args, py_args, re_split, program, argv, module,
                    command, script, script_args, scope_names, raised, code,
                    calls, session, ret, ns_interactive, backend_exc,
                    status >>

\* Mutant of line 44: the failure is never raised again.
reraises_never(inter) == FALSE

\* python, line 44: if not interactive: raise.
reraises(inter) == ~inter

\* python, lines 43-46: the except clause.
Handler ==
    /\ pc = "except"
    /\ IF reraises(interactive)
       THEN /\ pc' = "py_raised"
            /\ UNCHANGED << raised, calls >>
       ELSE /\ calls' = Append(calls, "print_exc")
            /\ raised' = "none"
            /\ pc' = "after_try"
    /\ UNCHANGED << caller, args, py_args, re_split, program, argv, module,
                    command, script, script_args, interactive, scope,
                    scope_names, banner, code, session, ret, ns_interactive,
                    backend_exc, status >>

\* The scope an interactive console runs in: code.interact(local=None)
\* makes a fresh one, which binds none of the program's names.
console_names(local, names) == IF local = "dict" THEN names ELSE {}

\* python, lines 48-49 with interactive true:
\* code.interact(banner=banner, local=scope).  Reading the local scope
\* raises UnboundLocalError when no assignment to it has run.
Interact ==
    /\ pc = "after_try"
    /\ interactive
    /\ IF scope = "unbound"
       THEN /\ raised' = "UnboundLocalError"
            /\ pc' = "py_raised"
            /\ UNCHANGED << calls, session >>
       ELSE /\ calls' = Append(calls, "interact")
            /\ session' = [ started |-> TRUE, banner |-> banner,
                            local |-> scope,
                            names |-> console_names(scope, scope_names) ]
            /\ pc' = "session"
            /\ UNCHANGED raised
    /\ UNCHANGED << caller, args, py_args, re_split, program, argv, module,
                    command, script, script_args, interactive, scope,
                    scope_names, banner, code, ret, ns_interactive,
                    backend_exc, status >>

\* python, line 48 with interactive false: python() returns.
NoInteract ==
    /\ pc = "after_try"
    /\ ~interactive
    /\ pc' = "py_returned"
    /\ UNCHANGED << caller, args, py_args, re_split, program, argv, module,
                    command, script, script_args, interactive, scope,
                    scope_names, banner, raised, code, calls, session, ret,
                    ns_interactive, backend_exc, status >>

\* The user ends the session: end of input makes code.interact return,
\* exit() raises SystemExit(None) out of it.
SessionEnd ==
    /\ pc = "session"
    /\ \E how \in { "eof", "exit" } :
          IF how = "eof"
          THEN pc' = "py_returned" /\ UNCHANGED << raised, code >>
          ELSE pc' = "py_raised" /\ raised' = "SystemExit" /\ code' = "None"
    /\ UNCHANGED << caller, args, py_args, re_split, program, argv, module,
                    command, script, script_args, interactive, scope,
                    scope_names, banner, calls, session, ret, ns_interactive,
                    backend_exc, status >>

\* Mutant of lines 146-150: one clause "except BaseException: return 1".
main_returns_one(exc, c) ==
    IF exc = "none" THEN "None"
    ELSE "1"

\* Mutant of lines 148-150: line 150 is missing, main falls off its end
\* after printing the traceback.
main_returns_none_on_error(exc, c) ==
    IF exc = "SystemExit" THEN c
    ELSE "None"

\* main, lines 143-150: what main returns.
main_returns(exc, c) ==
    IF exc = "none" THEN "None"
    ELSE IF exc = "SystemExit" THEN c
    ELSE "1"

MainReturn ==
    /\ pc \in { "parse_exit", "py_returned", "py_raised" }
    /\ caller = "main"
    /\ ret' = main_returns(raised, code)
    /\ calls' = IF caught(raised) THEN Append(calls, "main.print_exc")
                ELSE calls
    /\ pc' = "done"
    /\ UNCHANGED << caller, args, py_args, re_split, program, argv, module,
                    command, script, script_args, interactive, scope,
                    scope_names, banner, raised, code, session,
                    ns_interactive, backend_exc, status >>

\* line 154: sys.exit(arg) ends the process with status 0 for None and with
\* the integer itself for an integer.
exit_status(r) == IF r = "None" THEN "0" ELSE r

\* lines 153-154: sys.exit(main()).
SysExit ==
    /\ pc = "done"
    /\ status' = exit_status(ret)
    /\ pc' = "exited"
    /\ UNCHANGED << caller, args, py_args, re_split, program, argv, module,
                    command, script, script_args, ns_interactive,
                    interactive, scope, scope_names, banner, backend_exc,
                    raised, code, calls, session, ret >>

Dispatch ==
    \/ SetArgv
    \/ ExecCommand
    \/ RunModule
    \/ ExecStdin
    \/ RunPath
    \/ NoProgram
    \/ Handler
    \/ Interact
    \/ NoInteract
    \/ SessionEnd

Next == ParseArgs \/ Dispatch \/ MainReturn \/ SysExit

Spec == Init /\ [][Next]_vars

NextPython == Dispatch

SpecPython == InitPython /\ [][NextPython]_vars

NextSplit == SplitArgs \/ Resplit

SpecSplit == InitSplit /\ [][NextSplit]_vars

\* ----------------------------------------------------------------- claims
\* C1: once split_args(args) has returned (F, R), F ++ R = args: nothing is
\* duplicated, dropped or reordered.
C1_Concatenation ==
    pc \in { "resplit", "split_done" } => py_args \o script_args = args

\* A split with an operand taken for -c/-m and a token forwarded.
C1_Witness ==
    /\ pc = "resplit"
    /\ Len(py_args) >= 2
    /\ py_args[Len(py_args) - 1] \in { DashC, DashM }
    /\ script_args # <<>>

\* The claim's terminating tokens: (a) exactly -c or -m, (b) exactly "-",
\* (c) a dash token whose second character is c or m, (d) a token that
\* does not start with a dash.
C2_Terminating(a) ==
    \/ a = <<"-", "c">> \/ a = <<"-", "m">>
    \/ a = <<"-">>
    \/ Len(a) >= 2 /\ a[1] = "-" /\ a[2] \in { "c", "m" }
    \/ Len(a) = 0
    \/ Len(a) >= 1 /\ a[1] # "-"

\* The index of the first terminating token of V, 0 if there is none.
C2_First(V) ==
    IF \E i \in 1..Len(V) : C2_Terminating(V[i])
    THEN CHOOSE i \in 1..Len(V) :
            /\ C2_Terminating(V[i])
            /\ \A j \in 1..(i - 1) : ~C2_Terminating(V[j])
    ELSE 0

\* Where the claim cuts V: after the operand of an exact -c/-m (at the end
\* of V if there is none), after any other terminating token, at the end
\* of V if no token terminates.
C2_Cut(V) ==
    LET i == C2_First(V) IN
    IF i = 0 THEN Len(V)
    ELSE IF V[i] = <<"-", "c">> \/ V[i] = <<"-", "m">>
         THEN IF i + 1 <= Len(V) THEN i + 1 ELSE Len(V)
         ELSE i

\* C2: split_args cuts args at its first terminating token: frontEnd is the
\* prefix up to the cut and forwarded is everything after it.
C2_CutAtFirstTerminator ==
    pc \in { "resplit", "split_done" } =>
        /\ py_args = SubSeq(args, 1, C2_Cut(args))
        /\ script_args = SubSeq(args, C2_Cut(args) + 1, Len(args))

\* A flag, then a bundled mode selector that ends the scan, then a
\* forwarded token (the shape of the doctest ["-mjson.tool", "-h"]).
C2_Witness ==
    /\ pc = "resplit"
    /\ Len(py_args) = 2
    /\ py_args[1] = DashI
    /\ Len(py_args[2]) >= 3
    /\ py_args[2][2] \in { "c", "m" }
    /\ script_args = << DashI >>

\* C3: split_args applied to its own frontEnd returns that frontEnd and an
\* empty forwarded slice.
C3_Idempotent ==
    pc = "split_done" => re_split = << py_args, <<>> >>

\* The second split of a frontEnd that was cut from a longer vector.
C3_Witness ==
    /\ pc = "split_done"
    /\ Len(py_args) >= 2
    /\ script_args # <<>>
    /\ re_split[1] = py_args

\* The failures a backend step may raise that "except Exception" is for.
Failures == { "BackendError", "SyntaxError" }

\* python() has ended: it returned or an exception left it.
Ended == pc \in { "py_returned", "py_raised" }

\* C4: in an execution branch with interactive false, a failure raised by
\* the backend is the exception in flight from then on (never replaced,
\* never swallowed), it leaves python(), and no interactive session is
\* started.
C4_FailurePropagates ==
    (backend_exc \in Failures /\ ~ns_interactive) =>
        /\ pc \in { "except", "py_raised" }
        /\ raised = backend_exc
        /\ ~session.started
        /\ \A k \in 1..Len(calls) : calls[k] \notin { "interact", "print_exc" }

\* A module that raises, run without -i: the failure has left python().
C4_Witness ==
    /\ pc = "py_raised"
    /\ branch(command, module, script) = "module"
    /\ ~ns_interactive
    /\ backend_exc = "BackendError"
    /\ raised = "BackendError"

\* C5: in an execution branch with interactive true, a failure raised by the
\* backend does not leave python(): when python() has ended a diagnostic
\* was printed and a session was started, and the only exception that can
\* leave is the session's own SystemExit.
C5_FailureFallsBackToSession ==
    (backend_exc \in Failures /\ ns_interactive /\ Ended) =>
        /\ session.started
        /\ \E k \in 1..Len(calls) : calls[k] = "print_exc"
        /\ raised \in { "none", "SystemExit" }

\* C6: with none of command, module, script set, no backend step is
\* invoked, interactive is forced to true and exactly one session is
\* started, in a scope that binds no name of a program.
C6_FreshSession ==
    (command = None /\ module = None /\ script = None
        /\ pc \in { "session", "py_returned", "py_raised" }) =>
        /\ calls = << "interact" >>
        /\ interactive
        /\ session.started
        /\ session.local = "None"
        /\ session.names = {}

\* python(None, None, None, ..., interactive=False) has run its session.
C6_Witness ==
    /\ pc = "py_returned"
    /\ command = None /\ module = None /\ script = None
    /\ ~ns_interactive
    /\ interactive
    /\ calls = << "interact" >>

\* C7 as claimed: the session of branch 5 gets the blank banner "" and a
\* session after branches 1-4 gets no banner argument (None, the default).
C7_BannerAsClaimed ==
    session.started =>
        IF branch(command, module, script) = "none"
        THEN session.banner = Some(Empty)
        ELSE session.banner = None

\* C7 amended: the session of branch 5 is started with banner=None, for
\* which code.interact prints its default banner, and a session after
\* branches 1-4 is started with banner="", which prints none.
C7_Banner ==
    session.started =>
        IF branch(command, module, script) = "none"
        THEN session.banner = None
        ELSE session.banner = Some(Empty)

\* A session of branch 5, started with banner=None.
C7_Witness ==
    /\ session.started
    /\ branch(command, module, script) = "none"
    /\ session.banner = None
    /\ pc = "session"

\* At most one of command, module, script is set.
AtMostOneSet ==
    Cardinality({ f \in { "c", "m", "s" } :
        \/ f = "c" /\ command # None
        \/ f = "m" /\ module # None
        \/ f = "s" /\ script # None }) <= 1

\* C8 as claimed, for the records with at most one field set: position 0
\* is left alone when module is set and when script is "-", and is
\* overwritten only to "-c" in the command branch and to the script path
\* in the file-script branch.
C8_Position0AsClaimed ==
    (pc # "python" /\ caller = "direct" /\ AtMostOneSet) =>
        /\ (module # None \/ script = Some(Dash)) => argv[1] = Prog
        /\ argv[1] # Prog =>
              \/ branch(command, module, script) = "command" /\ argv[1] = DashC
              \/ branch(command, module, script) = "file" /\ argv[1] = script[1]

\* C8 amended: position 0 becomes "-c" when command is non-empty, else the
\* value of script when script is non-empty ("-" for stdin included), and
\* keeps its value otherwise (a module alone, or nothing to run).
C8_Position0 ==
    (pc # "python" /\ caller = "direct") =>
        /\ Truthy(command) => argv[1] = DashC
        /\ (~Truthy(command) /\ script = Some(Dash)) => argv[1] = Dash
        /\ (~Truthy(command) /\ Truthy(script)) => argv[1] = script[1]
        /\ (~Truthy(command) /\ ~Truthy(script)) => argv[1] = Prog

\* The stdin record: position 0 has become "-".
C8_Witness ==
    /\ pc = "try"
    /\ command = None /\ module = None /\ script = Some(Dash)
    /\ argv[1] = Dash

\* C9: a namespace that reaches python() from parse_args has at most one
\* of command, module, script set.
C9_AtMostOneMode ==
    (caller = "main" /\ pc = "python") => AtMostOneSet

\* C10: with script "-" and a source that raises nothing, python() ends
\* without a failure, the source was executed, and with interactive true
\* the session was started with the scope the source ran in.
C10_StdinRuns ==
    (branch(command, module, script) = "stdin" /\ program.result = "ok"
        /\ Ended) =>
        /\ raised \in { "none", "SystemExit" }
        /\ \E k \in 1..Len(calls) : calls[k] = "exec"
        /\ ns_interactive => (session.started /\ session.local = "dict")

\* The parser exits on the front-end slice.
C11_ParserExits == parser_walk(py_args, 1, ParserStart).exit # ""

\* The parse-time exits the claim lists: -V in the front-end slice, and a
\* front-end slice that ends with an exact -c or -m (its operand missing;
\* -c together with -m is covered by C11_ParserExits).
C11_Listed ==
    \/ \E k \in 1..Len(py_args) : py_args[k] = <<"-", "V">>
    \/ py_args # <<>> /\ py_args[Len(py_args)] \in { <<"-", "c">>, <<"-", "m">> }

\* C11: when the parser exits, python() is never entered: no backend step
\* and no session, sys.argv and python()'s locals untouched, and main
\* returns the parser's exit code.
C11_ExitBeforeDispatch ==
    (caller = "main" /\ pc # "main" /\ (C11_ParserExits \/ C11_Listed)) =>
        /\ pc \in { "parse_exit", "done", "exited" }
        /\ calls = <<>>
        /\ ~session.started
        /\ banner = "unset"
        /\ scope = "unbound"
        /\ argv = <<Prog>> \o args
        /\ raised = "SystemExit"
        /\ code \in { "0", "2" }
        /\ pc \in { "done", "exited" } => ret = code

\* main has returned 0 for a -V that follows a flag, and 2 is not the only
\* code: the version exit came before any dispatch.
C11_Witness ==
    /\ pc = "done"
    /\ Len(py_args) >= 2
    /\ py_args[1] = DashI
    /\ py_args[2] = DashV
    /\ ret = "0"
    /\ calls = <<>>

\* The exceptions main's "except Exception" clause is for.
C12_Ordinary == { "BackendError", "SyntaxError", "UnboundLocalError" }

\* C12: the exit status of the process is 0 when python() returned (a
\* successful execution, or a session ended by end of input) and when the
\* user left the session with exit(), 1 when an ordinary exception left
\* python(), the SystemExit's own code when the executed program raised
\* one, and the parser's code when the parser exited; it is never 0 when a
\* backend failure left python().
C12_ExitStatus ==
    pc = "exited" =>
        /\ raised = "none" => status = "0"
        /\ raised \in C12_Ordinary => status = "1"
        /\ (raised = "SystemExit" /\ session.started) => status = "0"
        /\ (raised = "SystemExit" /\ backend_exc = "SystemExit"
                /\ ~session.started) => status = "3"
        /\ (raised = "SystemExit" /\ calls = <<>>) => status \in { "0", "2" }
        /\ (backend_exc \in Failures /\ raised = backend_exc) => status # "0"

\* A module that raised without -i: the process exits with status 1.
C12_Witness ==
    /\ pc = "exited"
    /\ backend_exc = "BackendError"
    /\ raised = "BackendError"
    /\ branch(command, module, script) = "module"
    /\ status = "1"

\* python() got as far as line 48 with interactive true and an exception
\* other than SystemExit left it: the except clause swallows every such
\* exception of the try body when interactive is true, so this one was
\* raised by line 49.
C13_InteractiveStepFailed ==
    /\ pc = "py_raised"
    /\ interactive
    /\ raised # "SystemExit"

\* C13: a session after an execution branch is given the very scope the
\* execution step ran in or produced, with the names the program bound
\* before it failed; and when the interactive step is reached with no
\* scope created, a session is started all the same (with an empty scope).
C13_ScopeHandedOver ==
    branch(command, module, script) # "none" =>
        /\ session.started =>
              /\ session.local = "dict"
              /\ scope = "dict"
              /\ session.names = scope_names
              /\ (program.result # "syntax" => program.binds \subseteq session.names)
        /\ ~C13_InteractiveStepFailed

\* C14: a vector that ends with an exact -c or -m, with only dash tokens
\* that do not end the scan before it, is returned whole as frontEnd, with
\* nothing forwarded and no exception.
C14_MissingOperandTolerated ==
    (pc # "split" /\ args # <<>>
        /\ args[Len(args)] \in { <<"-", "c">>, <<"-", "m">> }
        /\ \A j \in 1..(Len(args) - 1) : ~C2_Terminating(args[j])) =>
        /\ pc \in { "resplit", "split_done" }
        /\ raised = "none"
        /\ py_args = args
        /\ script_args = <<>>

\* ["-i", "-c"]: the flag without its operand is in frontEnd.
C14_Witness ==
    /\ pc = "resplit"
    /\ args = << DashI, DashC >>
    /\ py_args = args
    /\ script_args = <<>>

\* C15: split_args returns a pair for every vector and raises nothing; the
\* empty vector gives two empty slices, and an unknown flag at the head of
\* the vector is the head of frontEnd.
C15_Total ==
    pc # "split" =>
        /\ pc \in { "resplit", "split_done" }
        /\ raised = "none"
        /\ Len(py_args) + Len(script_args) = Len(args)
        /\ args = <<>> => (py_args = <<>> /\ script_args = <<>>)
        /\ (args # <<>> /\ args[1] = <<"-", "x">>) =>
              (py_args # <<>> /\ py_args[1] = <<"-", "x">>)

\* An unknown flag, an empty string and a lone dash: split without error.
C15_Witness ==
    /\ pc = "resplit"
    /\ args = << DashX, Dash, Empty >>
    /\ py_args = << DashX, Dash >>
    /\ script_args = << Empty >>
    /\ raised = "none"

\* C16: from the moment python() has run lines 16-20, positions 1 and
\* onward of sys.argv are exactly script_args, and until then no backend
\* step and no session has begun.
C16_ForwardedArgs ==
    /\ pc = "python" => (calls = <<>> /\ ~session.started)
    /\ (caller = "direct" /\ pc # "python") =>
          /\ Len(argv) = Len(script_args) + 1
          /\ \A k \in 1..Len(script_args) : argv[k + 1] = script_args[k]

\* Two forwarded arguments have replaced the one sys.argv had, and a
\* backend step has run.
C16_Witness ==
    /\ caller = "direct"
    /\ script_args = << X, DashI >>
    /\ argv = << DashC, X, DashI >>
    /\ calls = << "exec" >>

\* The first call of each execution step: exec for a command, run_module,
\* sys.stdin.read for the stdin script, run_path for a file script.
C17_StepCalls == { "exec", "run_module", "stdin.read", "run_path" }

\* The step the priority chain selects: command, then module, then the
\* stdin script, then the file script; "none" when nothing is to be run.
C17_Selected ==
    IF command # None /\ command # Some(Empty) THEN "exec"
    ELSE IF module # None /\ module # Some(Empty) THEN "run_module"
    ELSE IF script = Some(Dash) THEN "stdin.read"
    ELSE IF script # None /\ script # Some(Empty) THEN "run_path"
    ELSE "none"

\* C17: a dispatch begins at most one execution step, the one the priority
\* chain selects; code.interact is called at most once, as the last
\* backend call, so never before the execution step has ended.
C17_PriorityChain ==
    LET steps == { k \in 1..Len(calls) : calls[k] \in C17_StepCalls }
        sessions == { k \in 1..Len(calls) : calls[k] = "interact" }
    IN  /\ Cardinality(steps) <= 1
        /\ \A k \in steps : calls[k] = C17_Selected
        /\ Cardinality(sessions) <= 1
        /\ \A k \in sessions : k = Len(calls) /\ \A j \in steps : j < k
        /\ session.started <=> sessions # {}
        /\ pc \in { "python", "try" } => calls = <<>>

\* All three fields set and -i: only the command was run, then the session.
C17_Witness ==
    /\ pc = "py_returned"
    /\ Truthy(command) /\ Truthy(module) /\ Truthy(script)
    /\ calls = << "exec", "interact" >>

\* Tokens a second vector may forward: flags the parser knows, an unknown
\* flag and a plain word.
C18_Forwardable == { DashI, DashV, DashC, << "-", "h" >>, DashX, X }

\* The forwarded slices tried for the second vector.
C18_Forwarded == SeqsUpTo(C18_Forwardable, MaxFwd)

\* The outcome of parse_args for the vector v is the one main has reached.
C18_SameOutcome(v) ==
    LET p == parse_args(v) IN
    IF pc = "parse_exit"
    THEN raised = "SystemExit" /\ p.exit = code
    ELSE /\ p.exit = ""
         /\ p.command = command
         /\ p.module = module
         /\ p.script = script
         /\ p.interactive = ns_interactive

\* C18: once main has parsed its vector, every vector with the same
\* front-end slice, whatever it forwards (nothing included), gives the same
\* command, module, script and interactive, or the same parser exit.
C18_FrontEndOnly ==
    (caller = "main" /\ pc \in { "python", "parse_exit" }) =>
        \A f \in C18_Forwarded :
            split_args(py_args \o f)[1] = py_args
                => C18_SameOutcome(py_args \o f)

\* "x -i -V": -i and -V are forwarded, the record is not interactive and
\* the parser has not exited.
C18_Witness ==
    /\ pc = "python"
    /\ args = << X, DashI, DashV >>
    /\ py_args = << X >>
    /\ script_args = << DashI, DashV >>
    /\ script = Some(X)
    /\ ~ns_interactive

\* C19: when the executed program raises SystemExit, the exit is still in
\* flight when python() is left: no traceback is printed, no session is
\* started, whatever interactive is, and main returns the exit's code, which
\* becomes the process status.
C19_ExitPropagates ==
    backend_exc = "SystemExit" =>
        /\ raised = "SystemExit"
        /\ code = ProgExit
        /\ pc \in { "py_raised", "done", "exited" }
        /\ ~session.started
        /\ \A k \in 1..Len(calls) :
              calls[k] \notin { "print_exc", "main.print_exc", "interact" }
        /\ pc \in { "done", "exited" } => ret = ProgExit
        /\ pc = "exited" => status = ProgExit

\* "-i x" where the script calls sys.exit(3): main has returned "3".
C19_Witness ==
    /\ pc = "done"
    /\ ns_interactive /\ interactive
    /\ script = Some(X)
    /\ backend_exc = "SystemExit"
    /\ calls = << "run_path" >>
    /\ ret = ProgExit

====
